---- MODULE Spec2Model ----
(***************************************************************************)
(* Model of generate_data_and_plot/generate_all_data.py: the request       *)
(* generator req_generator_uniform, the sweep driver                       *)
(* simulate_different_request_rates with its per-point helper, and the     *)
(* __main__ script that runs the sweep for a fixed list of topologies.     *)
(*                                                                         *)
(* Spec    : the __main__ script, run as a process that may be killed and  *)
(*           started again on the same disk.                               *)
(* SpecGen : one req_generator_uniform generator, driven by next().        *)
(*                                                                         *)
(* The disk, the street-network files and the connectivity of the loaded   *)
(* graphs belong to the environment.  Each environment fact is             *)
(* "unobserved" until the script first looks at it; it is then fixed by a  *)
(* nondeterministic choice and keeps that value, also across process runs. *)
(***************************************************************************)
EXTENDS Integers, Sequences, FiniteSets, TLC

\* ------------------------------------------------------------------ bounds
\* Number of sweep values; stands for the 100 of np.linspace(0.1, 40, 100).
NPoints == 3
\* Number of times the script is started on the same disk.
MaxRuns == 2
\* num_reqs of a generator is drawn from 0..MaxCount.
MaxCount == 2
\* The graph handed to a generator has 2..MaxNodes nodes.
MaxNodes == 3
\* An inter-arrival draw is one of 0..MaxDraw time quanta.
MaxDraw == 1
\* req_rate of a generator is drawn from 1..MaxRate.
MaxRate == 2
\* l_avg handed to simulate_single_request_rate is drawn from 1..MaxLavg.
MaxLavg == 3
\* Number of calls of simulate_single_request_rate with the same graph and l_avg.
MaxCalls == 2
\* Number of result files on the disk that an earlier, interrupted sweep left
\* incomplete (truncated, or with 1..NPoints-1 entries) before the first run
\* starts.
MaxPartial == 1

\* ------------------------------------------------------- program constants
\* np.linspace(0.1, 40, 100): first and last sweep value, in thousandths.
XStart == 100
XStop == 40000
\* num_reqs = 10000
NumReqs == 10000

\* The (topology, destination path, tag) triples of __main__, in script order.
\* graph_file is the file the graph is read from ("" for a generated graph).
TripleList ==
  << [name |-> "ring10",    tag |-> "ring",      graph_file |-> "",
      pickle_path |-> "../data/ring_10.pkl"],
     [name |-> "ring100",   tag |-> "ring",      graph_file |-> "",
      pickle_path |-> "../data/ring_100.pkl"],
     [name |-> "line100",   tag |-> "line",      graph_file |-> "",
      pickle_path |-> "../data/line_100.pkl"],
     [name |-> "star100",   tag |-> "star",      graph_file |-> "",
      pickle_path |-> "../data/star_100.pkl"],
     [name |-> "grid100",   tag |-> "grid",      graph_file |-> "",
      pickle_path |-> "../data/grid_10.pkl"],
     [name |-> "trigrid13", tag |-> "trigrid",   graph_file |-> "",
      pickle_path |-> "../data/trigrid_13.pkl"],
     [name |-> "goe",       tag |-> "novolcomp",
      graph_file |-> "../data/homogenized_networks/goe//G_homog.gpkl",
      pickle_path |-> "../data/street_goe_homogenized.pkl"],
     [name |-> "harz",      tag |-> "novolcomp",
      graph_file |-> "../data/homogenized_networks/harz//G_homog.gpkl",
      pickle_path |-> "../data/street_harz_homogenized.pkl"],
     [name |-> "berlin",    tag |-> "novolcomp",
      graph_file |-> "../data/homogenized_networks/berlin//G_homog.gpkl",
      pickle_path |-> "../data/street_berlin_homogenized.pkl"],
     [name |-> "berlin_200_400", tag |-> "novolcomp",
      graph_file |-> "../data/homogenized_networks/berlin//diff_coarse_graining/all_berlin.pkl",
      pickle_path |-> "../data/street_berlin_homogenized_coarse_graining_meters_200_target_edge_length_400.pkl"],
     [name |-> "berlin_200_600", tag |-> "novolcomp",
      graph_file |-> "../data/homogenized_networks/berlin//diff_coarse_graining/all_berlin.pkl",
      pickle_path |-> "../data/street_berlin_homogenized_coarse_graining_meters_200_target_edge_length_600.pkl"],
     [name |-> "berlin_200_800", tag |-> "novolcomp",
      graph_file |-> "../data/homogenized_networks/berlin//diff_coarse_graining/all_berlin.pkl",
      pickle_path |-> "../data/street_berlin_homogenized_coarse_graining_meters_200_target_edge_length_800.pkl"] >>

Triples == 1..Len(TripleList)

\* The first triple of the "Many berlins" loop: all_berlin.pkl is opened once,
\* before the loop.
FirstCoarse == CHOOSE s \in Triples :
                 /\ TripleList[s].name = "berlin_200_400"
                 /\ \A t \in Triples : TripleList[t].name = "berlin_200_400" => s <= t

IsCoarse(s) == s >= FirstCoarse

IsFileBacked(s) == TripleList[s].graph_file # ""

GraphFiles == {TripleList[s].graph_file : s \in {t \in Triples : IsFileBacked(t)}}

PicklePaths == {TripleList[s].pickle_path : s \in Triples}

\* Variant: the path of the "Many berlins" loop leaves out its two parameters.
PathOfShared(s) ==
  IF IsCoarse(s) THEN TripleList[FirstCoarse].pickle_path ELSE TripleList[s].pickle_path

PathOf(s) == TripleList[s].pickle_path

\* Names bound in the module's global namespace: the imports (lines 20-28) and
\* the three function definitions (lines 30, 47, 82).
GlobalNames ==
  {"np", "nx", "defaultdict", "random", "pickle", "os",
   "ZeroDetourBus", "Stop", "Request", "Network",
   "req_generator_uniform", "simulate_different_request_rates",
   "simulate_single_request_rate"}

\* The name the loop body of the sweep driver calls (line 73).
PointCallee == "simulate_simgle_request_rate"

\* Python's lookup of a global name: NameError when it is not bound.
NameResolves(n) == n \in GlobalNames

\* np.linspace(start, stop, num): num evenly spaced values, ends included.
Linspace(start, stop, num) ==
  [i \in 1..num |-> IF num = 1 THEN start
                    ELSE start + ((i - 1) * (stop - start)) \div (num - 1)]

\* x_range = list(np.linspace(0.1, 40, 100))
x_range == Linspace(XStart, XStop, NPoints)

VARIABLES
  \* ---- the process running __main__
  run,          \* number of the current process run, 1..MaxRuns
  pc,           \* "load", "enter", "loop": next step of the script for triple cur;
                \* "finished", "crashed" (uncaught exception), "killed"
  cur,          \* index in TripleList of the triple the script is at
  failure,      \* the exception that ended this run, "none" if none
  G,            \* the triple whose graph the global G holds, 0 before the first
  all_Gs,       \* TRUE once all_berlin.pkl has been unpickled in this run
  sweepState,   \* per triple, the state of its sweep driver call in this run
  nG,           \* local nG of the latest sweep call: TRUE once Network(G, ...) is built
  l_avg,        \* local l_avg of the latest sweep call: "unbound" or "bound"
  result,       \* local result of the latest sweep call, a dict in insertion order
  idx,          \* number of values its for loop has taken from x_range
  \* ---- the environment
  graphFile,    \* per graph file: "unobserved", "present", "missing"
  coarseKey,    \* per triple: is all_Gs[200][target] there ("unobserved", "present", "missing")
  connected,    \* per triple: is its graph connected ("unobserved", "yes", "no")
  fileState,    \* per pickle path: "unobserved", "absent", "exists"
  fileData,     \* per pickle path: the pickled dict, << >> when there is no file
  \* ---- what has been done since the first run started, per triple
  nNetwork,     \* Network wrappers constructed
  nLavg,        \* average_shortest_path_length calls that returned
  engineCalls,  \* simulate_all_requests calls
  nWrites,      \* pickle.dump calls
  \* ---- one req_generator_uniform generator
  gen_pc,       \* "idle" (no generator), "suspended", "exhausted"
  num_reqs,     \* argument num_reqs
  req_rate,     \* argument req_rate
  nodes,        \* graph.nodes() of the argument graph, as the set 1..n
  t,            \* local t
  req_idx,      \* local req_idx
  draws,        \* the values np.random.exponential returned, in order
  yielded       \* the Request objects yielded, in order

mainVars == <<run, pc, cur, failure, G, all_Gs, sweepState, nG, l_avg, result, idx>>
envVars  == <<graphFile, coarseKey, connected, fileState, fileData>>
histVars == <<nNetwork, nLavg, engineCalls, nWrites>>
genVars  == <<gen_pc, num_reqs, req_rate, nodes, t, req_idx, draws, yielded>>

VARIABLES
  \* ---- simulate_single_request_rate, called for one graph and one l_avg
  sp_nodes,     \* G.nodes() of the argument graph, as the set 1..n ({} when not in use)
  sp_tag,       \* argument network_type
  sp_lavg,      \* argument l_avg
  sp_calls      \* per call so far, its argument x and what it handed to the engine

pointVars == <<sp_nodes, sp_tag, sp_lavg, sp_calls>>
vars     == <<mainVars, envVars, histVars, genVars, pointVars>>

\* ------------------------------------------------------------ environment
\* The outcomes of looking at an environment fact: any of `outcomes` the first
\* time, the value seen before ever after.
Observe(v, outcomes) == IF v = "unobserved" THEN outcomes ELSE {v}

\* What the engine hands back for its n-th invocation: opaque to the harness.
SimOutput(n) == [req_data |-> n, insertion_data |-> n]

\* The dict an earlier process pickled after k points of a sweep.
PriorData(k) == [i \in 1..k |-> [x |-> x_range[i], rec |-> SimOutput(0)]]

\* The result files seen so far that hold fewer than NPoints entries.
PartialFiles ==
  {q \in PicklePaths : fileState[q] = "exists" /\ Len(fileData[q]) < NPoints}

\* What can be found at pickle path p: nothing, the file of a completed sweep,
\* or the file an interrupted sweep left after k < NPoints points; k = 0 is the
\* file a process killed between open(pickle_path, 'wb') and the end of
\* pickle.dump leaves: truncated, it holds no dict.
DiskOutcomes(p) ==
  IF fileState[p] = "unobserved"
  THEN {[state |-> "absent", data |-> << >>],
        [state |-> "exists", data |-> PriorData(NPoints)]}
       \cup (IF Cardinality(PartialFiles) < MaxPartial
             THEN {[state |-> "exists", data |-> IF k = 0 THEN << >> ELSE PriorData(k)] :
                     k \in 0..(NPoints - 1)}
             ELSE {})
  ELSE {[state |-> fileState[p], data |-> fileData[p]]}

\* Variant: the existence check is left out.
os_path_exists_never(d) == FALSE

\* Variant: only a file that holds a dict counts.
os_path_exists_loadable(d) == d.state = "exists" /\ Len(d.data) > 0

\* Variant: only a file with all NPoints entries counts (a per-point resume).
os_path_exists_complete(d) == d.state = "exists" /\ Len(d.data) = NPoints

\* os.path.exists(pickle_path) on what is at the path.
os_path_exists(d) == d.state = "exists"

\* Variant: a missing graph file goes unnoticed.
OpenRaisesNever(st) == FALSE

\* nx.read_gpickle(path) / open(path, 'rb') raise FileNotFoundError on a
\* missing file.
OpenRaises(st) == st = "missing"

\* all_Gs[coarse_graining_meters][target_edge_length] raises KeyError on a
\* missing key.
LookupRaises(k) == k = "missing"

\* Variant: the average is taken over the reachable pairs only.
LavgRaisesNever(c) == FALSE

\* nx.average_shortest_path_length(G) raises NetworkXError on a graph that is
\* not connected.
LavgRaises(c) == c = "no"

\* ------------------------------------------------------------- the script
\* Variant: the exception is caught around the triple and the script goes on
\* with the next one.
PropagateContinue(exc) ==
  /\ IF cur < Len(TripleList)
     THEN pc' = "load" /\ cur' = cur + 1
     ELSE pc' = "finished" /\ cur' = cur
  /\ failure' = exc

\* An exception nobody catches: __main__ has no try statement, the
\* interpreter prints the traceback and the process ends.
Propagate(exc) ==
  /\ pc' = "crashed"
  /\ cur' = cur
  /\ failure' = exc

\* Variant: the script passes over the triple that comes next.
AdvanceSkip ==
  /\ IF cur + 1 < Len(TripleList)
     THEN pc' = "load" /\ cur' = cur + 2
     ELSE pc' = "finished" /\ cur' = cur
  /\ failure' = failure

\* The call of the sweep driver returned: the script goes on to the next
\* triple, or ends after the last.
Advance ==
  /\ IF cur < Len(TripleList)
     THEN pc' = "load" /\ cur' = cur + 1
     ELSE pc' = "finished" /\ cur' = cur
  /\ failure' = failure

\* result[x]['req_data'] = ...; result[x]['insertion_data'] = ... on the
\* insertion-ordered dict `d`.
DictSet(d, x, rec) ==
  IF \E i \in 1..Len(d) : d[i].x = x
  THEN [i \in 1..Len(d) |-> IF d[i].x = x THEN [x |-> x, rec |-> rec] ELSE d[i]]
  ELSE Append(d, [x |-> x, rec |-> rec])

\* ------------------------------------------------------------ initial state
InitMain ==
  /\ run = 1
  /\ pc = "load"
  /\ cur = 1
  /\ failure = "none"
  /\ G = 0
  /\ all_Gs = FALSE
  /\ sweepState = [s \in Triples |-> "Idle"]
  /\ nG = FALSE
  /\ l_avg = "unbound"
  /\ result = << >>
  /\ idx = 0

\* Nothing of the environment has been looked at; the generated graphs (cycle,
\* path, star, grid, triangular lattice) are connected by construction.
InitEnv ==
  /\ graphFile = [f \in GraphFiles |-> "unobserved"]
  /\ coarseKey = [s \in Triples |-> IF IsCoarse(s) THEN "unobserved" ELSE "present"]
  /\ connected = [s \in Triples |-> IF IsFileBacked(s) THEN "unobserved" ELSE "yes"]
  /\ fileState = [p \in PicklePaths |-> "unobserved"]
  /\ fileData = [p \in PicklePaths |-> << >>]

InitHist ==
  /\ nNetwork = [s \in Triples |-> 0]
  /\ nLavg = [s \in Triples |-> 0]
  /\ engineCalls = [s \in Triples |-> 0]
  /\ nWrites = [s \in Triples |-> 0]

\* No generator exists.
IdleGen ==
  /\ gen_pc = "idle"
  /\ num_reqs = 0
  /\ req_rate = 1
  /\ nodes = {}
  /\ t = 0
  /\ req_idx = 0
  /\ draws = << >>
  /\ yielded = << >>

\* simulate_single_request_rate is not being exercised on its own.
IdlePoint ==
  /\ sp_nodes = {}
  /\ sp_tag = ""
  /\ sp_lavg = 0
  /\ sp_calls = << >>

Init == InitMain /\ InitEnv /\ InitHist /\ IdleGen /\ IdlePoint

\* --------------------------------------------------- actions of the script
\* Variant: the statement that reads the graph file is not run before the
\* sweep driver is called.
NeedsOpenNever(s) == FALSE

\* Binding G for triple s reads a file: nx.read_gpickle for a street network,
\* the one open/pickle.load of all_berlin.pkl before the "Many berlins" loop.
NeedsOpen(s) == IsFileBacked(s) /\ (~IsCoarse(s) \/ ~all_Gs)

\* G = nx.cycle_graph(10) ... G = nx.read_gpickle(...) ... _,G = all_Gs[..][..]:
\* the statements that bind G for triple cur.
LoadGraph ==
  /\ pc = "load"
  /\ LET s == cur
         f == TripleList[s].graph_file
         opens == NeedsOpen(s)
     IN \E st \in (IF opens THEN Observe(graphFile[f], {"present", "missing"})
                            ELSE {"present"}),
           k \in Observe(coarseKey[s], {"present", "missing"}) :
          IF opens /\ OpenRaises(st)
          THEN /\ graphFile' = [graphFile EXCEPT ![f] = st]
               /\ Propagate("FileNotFoundError")
               /\ UNCHANGED <<G, all_Gs, coarseKey>>
          ELSE /\ graphFile' = IF opens THEN [graphFile EXCEPT ![f] = st] ELSE graphFile
               /\ all_Gs' = (all_Gs \/ IsCoarse(s))
               /\ coarseKey' = [coarseKey EXCEPT ![s] = k]
               /\ IF IsCoarse(s) /\ LookupRaises(k)
                  THEN Propagate("KeyError") /\ G' = G
                  ELSE /\ G' = s
                       /\ pc' = "enter"
                       /\ UNCHANGED <<cur, failure>>
  /\ UNCHANGED <<run, sweepState, nG, l_avg, result, idx>>
  /\ UNCHANGED <<connected, fileState, fileData>>
  /\ UNCHANGED <<histVars, genVars, pointVars>>

\* simulate_different_request_rates(G, pickle_path, network_type) up to the
\* for loop: the existence check, Network(G, ...), l_avg, x_range, result.
SweepEnter ==
  /\ pc = "enter"
  /\ LET s == cur
         p == PathOf(cur)
     IN \E d \in DiskOutcomes(p), c \in Observe(connected[s], {"yes", "no"}) :
          \* a new call: no local is bound yet, the loop has taken no value
          /\ idx' = 0
          /\ fileState' = [fileState EXCEPT ![p] = d.state]
          /\ fileData' = [fileData EXCEPT ![p] = d.data]
          /\ IF os_path_exists(d)
             THEN \* print("pickle exists, doing nothing"); return None
                  /\ sweepState' = [sweepState EXCEPT ![s] = "Skipped"]
                  /\ Advance
                  /\ nG' = FALSE /\ l_avg' = "unbound" /\ result' = << >>
                  /\ UNCHANGED <<connected, histVars>>
             ELSE /\ nG' = TRUE
                  /\ nNetwork' = [nNetwork EXCEPT ![s] = @ + 1]
                  /\ connected' = [connected EXCEPT ![s] = c]
                  /\ UNCHANGED <<engineCalls, nWrites>>
                  /\ IF LavgRaises(c)
                     THEN /\ sweepState' = [sweepState EXCEPT ![s] = "Failed"]
                          /\ Propagate("NetworkXError")
                          /\ l_avg' = "unbound" /\ result' = << >>
                          /\ UNCHANGED nLavg
                     ELSE /\ l_avg' = "bound"
                          /\ nLavg' = [nLavg EXCEPT ![s] = @ + 1]
                          /\ result' = << >>
                          /\ sweepState' = [sweepState EXCEPT ![s] = "Running"]
                          /\ pc' = "loop"
                          /\ UNCHANGED <<cur, failure>>
  /\ UNCHANGED <<run, G, all_Gs, graphFile, coarseKey>>
  /\ UNCHANGED <<genVars, pointVars>>

\* One pass of `for x in x_range:`: the call of the per-point function, the
\* two assignments into result, and the dump of the whole result.
SweepPoint ==
  /\ pc = "loop"
  /\ idx < NPoints
  /\ LET s == cur
         p == PathOf(cur)
         x == x_range[idx + 1]
     IN /\ idx' = idx + 1
        /\ IF ~NameResolves(PointCallee)
           THEN \* the name looked up at line 73 is not bound: NameError
                /\ sweepState' = [sweepState EXCEPT ![s] = "Failed"]
                /\ Propagate("NameError")
                /\ UNCHANGED <<result, fileState, fileData, engineCalls, nWrites>>
           ELSE \* simulate_single_request_rate: one engine run, returning its data
                /\ engineCalls' = [engineCalls EXCEPT ![s] = @ + 1]
                /\ result' = DictSet(result, x, SimOutput(engineCalls[s] + 1))
                /\ fileState' = [fileState EXCEPT ![p] = "exists"]
                /\ fileData' = [fileData EXCEPT ![p] = result']
                /\ nWrites' = [nWrites EXCEPT ![s] = @ + 1]
                /\ IF idx + 1 = NPoints
                   THEN sweepState' = [sweepState EXCEPT ![s] = "Done"] /\ Advance
                   ELSE UNCHANGED <<sweepState, pc, cur, failure>>
  /\ UNCHANGED <<run, G, all_Gs, nG, l_avg>>
  /\ UNCHANGED <<graphFile, coarseKey, connected, nNetwork, nLavg>>
  /\ UNCHANGED <<genVars, pointVars>>

\* The process is killed from outside while the script runs.
Kill ==
  /\ pc \in {"load", "enter", "loop"}
  /\ pc' = "killed"
  /\ UNCHANGED <<run, cur, failure, G, all_Gs, sweepState, nG, l_avg, result, idx>>
  /\ UNCHANGED <<envVars, histVars, genVars, pointVars>>

\* The script is started again: a new process on the same disk.
Restart ==
  /\ pc \in {"finished", "crashed", "killed"}
  /\ run < MaxRuns
  /\ run' = run + 1
  /\ pc' = "load"
  /\ cur' = 1
  /\ failure' = "none"
  /\ G' = 0
  /\ all_Gs' = FALSE
  /\ sweepState' = [s \in Triples |-> "Idle"]
  /\ nG' = FALSE
  /\ l_avg' = "unbound"
  /\ result' = << >>
  /\ idx' = 0
  /\ UNCHANGED <<envVars, histVars, genVars, pointVars>>

Next ==
  \/ LoadGraph
  \/ SweepEnter
  \/ SweepPoint
  \/ Kill
  \/ Restart

Spec == Init /\ [][Next]_vars

\* ------------------------------------------------- req_generator_uniform
\* Variant: the sample is taken from the nodes other than node 1 (a star's
\* hub) only.
Sample2Leaves(S) == {pair \in (S \ {1}) \X (S \ {1}) : pair[1] # pair[2]}

\* random.sample(graph.nodes(), k=2): two distinct nodes, in either order.
Sample2(S) == {pair \in S \X S : pair[1] # pair[2]}

\* np.random.exponential(1/req_rate), in time quanta.  The draw is a float64
\* that is never negative; it can be 0.0, and a draw below half an ulp of t
\* leaves the float64 sum t + delta_t equal to t, so 0 stands for both.  The
\* rate changes how likely each value is, not which values can occur.
Exponential(rate) == 0..MaxDraw

\* Variant: off by one.
LoopCondLE == req_idx <= num_reqs

\* while req_idx < num_reqs
LoopCond == req_idx < num_reqs

\* Variant: t = delta_t.
AccumulateReset(acc, delta_t) == delta_t

\* t += delta_t
Accumulate(acc, delta_t) == acc + delta_t

\* Request(req_idx, t, orig, dest)
Request(i, time, orig, dest) == [req_idx |-> i, t |-> time, orig |-> orig, dest |-> dest]

\* A generator object just made by req_generator_uniform(graph, num_reqs,
\* req_rate), for every graph, count and rate within the bounds.
InitGen ==
  /\ InitMain /\ InitEnv /\ InitHist /\ IdlePoint
  /\ gen_pc = "suspended"
  /\ num_reqs \in 0..MaxCount
  /\ req_rate \in 1..MaxRate
  /\ nodes \in {1..n : n \in 2..MaxNodes}
  /\ t = 0
  /\ req_idx = 0
  /\ draws = << >>
  /\ yielded = << >>

\* next(gen) when the loop condition holds: one pass of the loop body, up to
\* and including the yield.
GenYield ==
  /\ gen_pc = "suspended"
  /\ LoopCond
  /\ \E pair \in Sample2(nodes), delta_t \in Exponential(req_rate) :
       /\ t' = Accumulate(t, delta_t)
       /\ req_idx' = req_idx + 1
       /\ draws' = Append(draws, delta_t)
       /\ yielded' = Append(yielded, Request(req_idx', t', pair[1], pair[2]))
  /\ UNCHANGED <<gen_pc, num_reqs, req_rate, nodes>>
  /\ UNCHANGED <<mainVars, envVars, histVars, pointVars>>

\* next(gen) when the loop condition fails: the function body ends and the
\* generator raises StopIteration from then on.
GenReturn ==
  /\ gen_pc = "suspended"
  /\ ~LoopCond
  /\ gen_pc' = "exhausted"
  /\ UNCHANGED <<num_reqs, req_rate, nodes, t, req_idx, draws, yielded>>
  /\ UNCHANGED <<mainVars, envVars, histVars, pointVars>>

NextGen ==
  \/ GenYield
  \/ GenReturn

SpecGen == InitGen /\ [][NextGen]_vars

\* ======================================================== claims, Spec
HasFile(s) == fileState[PathOf(s)] = "exists"

\* The step is one of the script (the process was not killed in it).
ScriptStep == pc' # "killed"

\* C1: a call of the sweep driver that finds its destination path existing
\* goes straight to Skipped: it builds no Network wrapper, computes no l_avg,
\* runs no engine, writes nothing, and leaves every result file as it was.
C1_SkipDoesNothing ==
  [][ (pc = "enter" /\ ScriptStep /\ fileState'[PathOf(cur)] = "exists")
        => /\ sweepState'[cur] = "Skipped"
           /\ nG' = FALSE /\ l_avg' = "unbound" /\ result' = << >>
           /\ histVars' = histVars
           /\ \A q \in PicklePaths :
                fileState[q] # "unobserved"
                  => fileState'[q] = fileState[q] /\ fileData'[q] = fileData[q] ]_vars

\* C1 witness: in a second run the driver skipped a triple whose file holds a
\* complete sweep.
C1_Witness ==
  \E s \in Triples : /\ run >= 2
                     /\ sweepState[s] = "Skipped"
                     /\ Len(fileData[PathOf(s)]) = NPoints

\* C2 as stated: once the loop body has run for x_i in a sweep that began
\* with no file, the file holds exactly i entries, keyed by the first i sweep
\* values in order, and equals the in-memory result.
C2_CheckpointGrowth ==
  (pc \in {"loop", "crashed", "finished", "load"} /\ idx >= 1)
    => LET s == CHOOSE u \in Triples :
                  /\ sweepState[u] \in {"Running", "Failed", "Done"}
                  /\ \A v \in Triples :
                       sweepState[v] \in {"Running", "Failed", "Done"} => v <= u
           p == PathOf(s)
       IN /\ fileState[p] = "exists"
          /\ fileData[p] = result
          /\ Len(result) = idx
          /\ \A i \in 1..idx : result[i].x = x_range[i]

\* C3 as stated: a sweep that began with no file on a connected graph and has
\* ended without the process being killed is Done, with one entry per sweep
\* value in its file.
C3_SweepCompletes ==
  \A s \in Triples :
    (sweepState[s] \in {"Failed", "Done"} /\ connected[s] = "yes")
      => /\ sweepState[s] = "Done"
         /\ HasFile(s)
         /\ Len(fileData[PathOf(s)]) = NPoints
         /\ \A i \in 1..NPoints : fileData[PathOf(s)][i].x = x_range[i]

\* A result file that holds some but not all points.
IsPartial(s) == HasFile(s) /\ Len(fileData[PathOf(s)]) \in 1..(NPoints - 1)

\* C4: a file with k points, 1 <= k < NPoints, makes every run skip its
\* sweep: the driver never gets past the existence check, no engine run and
\* no write happen for it, and the file keeps exactly those k entries.
C4_PartialFileIsFinal ==
  /\ [](\A s \in Triples :
          IsPartial(s) => /\ sweepState[s] \in {"Idle", "Skipped"}
                          /\ nNetwork[s] = 0 /\ nLavg[s] = 0
                          /\ engineCalls[s] = 0 /\ nWrites[s] = 0)
  /\ [][\A s \in Triples :
          IsPartial(s) => /\ fileState'[PathOf(s)] = "exists"
                          /\ fileData'[PathOf(s)] = fileData[PathOf(s)]]_vars

\* C4 witness: a later run has skipped a triple whose file is partial.
C4_Witness ==
  \E s \in Triples : run >= 2 /\ IsPartial(s) /\ sweepState[s] = "Skipped"

\* C5 as stated: when the driver gets past the existence check for the second
\* time (an earlier run left no file) on a connected graph, the run that is
\* not killed goes through the whole sweep again, from the first value.
C5_RestartRecomputesAll ==
  \A s \in Triples :
    (nNetwork[s] >= 2 /\ connected[s] = "yes" /\ sweepState[s] \in {"Failed", "Done"})
      => /\ sweepState[s] = "Done"
         /\ engineCalls[s] >= NPoints
         /\ Len(fileData[PathOf(s)]) = NPoints
         /\ fileData[PathOf(s)][1].x = XStart

\* C6 as stated: when the script has failed at one triple, every later triple
\* has had its sweep driver called all the same.
C6_LaterTriplesStillRun ==
  pc = "crashed" => \A u \in Triples : u > cur => sweepState[u] # "Idle"

\* C6 amended: an exception raised for one triple ends the process: the
\* script stops at that triple and no later triple's sweep driver is called in
\* that run.
C6_FailureEndsRun ==
  failure # "none"
    => /\ pc = "crashed"
       /\ \A u \in Triples : u > cur => sweepState[u] = "Idle"

\* C6 witness: the run ended on a missing street-network file with triples
\* still to come.
C6_Witness ==
  /\ pc = "crashed"
  /\ failure = "FileNotFoundError"
  /\ cur < Len(TripleList)

\* The first triple whose graph comes from graph file f.
FirstBackedBy(f) ==
  CHOOSE s \in Triples :
    /\ TripleList[s].graph_file = f
    /\ \A u \in Triples : TripleList[u].graph_file = f => s <= u

\* C7: a missing graph file ends the run with FileNotFoundError at the first
\* triple that needs it; for every triple that needs it the sweep driver is
\* never called, so no engine run happens and its destination is neither
\* looked at nor written.
C7_MissingGraphFileIsFatal ==
  \A f \in GraphFiles :
    graphFile[f] = "missing"
      => /\ cur <= FirstBackedBy(f)
         /\ cur = FirstBackedBy(f)
              => /\ pc \in {"load", "crashed", "killed"}
                 /\ pc = "crashed" => failure = "FileNotFoundError"
         /\ \A s \in Triples :
              TripleList[s].graph_file = f
                => /\ sweepState[s] = "Idle"
                   /\ nNetwork[s] = 0 /\ engineCalls[s] = 0 /\ nWrites[s] = 0
                   /\ fileState[PathOf(s)] = "unobserved"

\* C7 witness: a run ended with FileNotFoundError on a missing graph file.
C7_Witness ==
  \E f \in GraphFiles :
    /\ graphFile[f] = "missing"
    /\ pc = "crashed" /\ failure = "FileNotFoundError"
    /\ cur = FirstBackedBy(f)

\* C8: with no destination file and a disconnected graph the sweep fails at
\* the l_avg computation with NetworkXError: the loop is never entered, no
\* engine run and no write happen, no file appears, and no later run skips
\* the triple.
C8_DisconnectedGraphIsFatal ==
  \A s \in Triples :
    connected[s] = "no"
      => /\ fileState[PathOf(s)] = "absent"
         /\ sweepState[s] \in {"Idle", "Failed"}
         /\ nLavg[s] = 0 /\ engineCalls[s] = 0 /\ nWrites[s] = 0
         /\ sweepState[s] = "Failed"
              => /\ pc = "crashed" /\ failure = "NetworkXError"
                 /\ cur = s /\ idx = 0 /\ l_avg = "unbound"

\* C8 witness: the sweep on a disconnected graph has failed in a second run as
\* well, its destination still absent.
C8_Witness ==
  \E s \in Triples :
    /\ connected[s] = "no"
    /\ sweepState[s] = "Failed"
    /\ nNetwork[s] = 2
    /\ fileState[PathOf(s)] = "absent"

\* ===================================================== claims, SpecGen
\* C9: the generator yields at most num_reqs requests, the i-th carrying index
\* i; it goes on yielding while fewer than num_reqs have been yielded, and when
\* it is exhausted it has yielded exactly num_reqs.
C9_ExactlyCountRequests ==
  /\ Len(yielded) <= num_reqs
  /\ \A i \in 1..Len(yielded) : yielded[i].req_idx = i
  /\ (gen_pc = "suspended" /\ Len(yielded) < num_reqs) => ENABLED GenYield
  /\ gen_pc = "exhausted" => Len(yielded) = num_reqs

\* C9 witness: a generator asked for MaxCount requests is exhausted after
\* yielding them.
C9_Witness ==
  /\ gen_pc = "exhausted"
  /\ num_reqs = MaxCount
  /\ Len(yielded) = MaxCount

RECURSIVE SumTo(_, _)
\* seq[1] + ... + seq[n]
SumTo(seq, n) == IF n = 0 THEN 0 ELSE SumTo(seq, n - 1) + seq[n]

\* C10 as stated: the i-th arrival time is the sum of the first i draws, the
\* first is greater than 0 and each is greater than the one before.
C10_StrictlyIncreasing ==
  \A i \in 1..Len(yielded) :
    /\ yielded[i].t = SumTo(draws, i)
    /\ yielded[i].t > (IF i = 1 THEN 0 ELSE yielded[i - 1].t)

\* C10 amended: the i-th arrival time is the sum of the first i draws, the
\* first is at least 0 and none is smaller than the one before (two in a row
\* can be equal).
C10_RunningSumNonDecreasing ==
  /\ Len(draws) = Len(yielded)
  /\ \A i \in 1..Len(yielded) :
       LET before == IF i = 1 THEN 0 ELSE yielded[i - 1].t
       IN /\ yielded[i].t = SumTo(draws, i)
          /\ yielded[i].t >= before

\* C10 witness: two requests yielded, the second after a draw that added
\* nothing to a positive t.
C10_Witness ==
  /\ Len(yielded) >= 2
  /\ yielded[1].t > 0
  /\ draws[2] = 0
  /\ yielded[2].t = yielded[1].t

\* C11: every request has two distinct nodes of the graph as origin and
\* destination, and whatever has been yielded so far, the next request can
\* carry any ordered pair of distinct nodes of the graph (node 1, a star's
\* hub, included).
C11_DistinctPairFromAllNodes ==
  /\ \A i \in 1..Len(yielded) :
       /\ yielded[i].orig \in nodes
       /\ yielded[i].dest \in nodes
       /\ yielded[i].orig # yielded[i].dest
  /\ (gen_pc = "suspended" /\ LoopCond)
       => \A a \in nodes, b \in nodes :
            a # b => ENABLED (/\ GenYield
                             /\ yielded'[Len(yielded) + 1].orig = a
                             /\ yielded'[Len(yielded) + 1].dest = b)

\* C11 witness: on a graph of MaxNodes nodes, node 1 was the origin of one
\* request and the destination of the next, which used the same two nodes.
C11_Witness ==
  /\ nodes = 1..MaxNodes
  /\ Len(yielded) >= 2
  /\ yielded[1].orig = 1
  /\ yielded[2].dest = 1
  /\ yielded[2].orig = yielded[1].dest

\* ------------------------------------------- simulate_single_request_rate
\* A quotient of two floats, kept exact as <<numerator, denominator>> with a
\* positive denominator.  Float division rounds monotonically, and dividing
\* or multiplying by 2 is exact.
Quot(a, b) == <<a, b>>

\* r / k for a quotient r and a positive number k.
QuotDiv(r, k) == <<r[1], r[2] * k>>

QuotEq(r, q) == r[1] * q[2] = q[1] * r[2]

QuotLt(r, q) == r[1] * q[2] < q[1] * r[2]

\* Variant: x / (2 / l_avg).
ReqRateMisgrouped(x, lavg) == <<x * lavg, 2>>

\* req_rate = x/2/l_avg
ReqRate(x, lavg) == QuotDiv(QuotDiv(Quot(x, 1), 2), lavg)

\* The values network_type takes in __main__.
Tags == {TripleList[s].tag : s \in Triples}

\* simulate_single_request_rate(G, nG, x, network_type, l_avg) with `start` the
\* outcome of random.sample(G.nodes(), k=1)[0]: what it hands to
\* req_generator_uniform and to ZeroDetourBus before it runs the engine.
simulate_single_request_rate(x, network_type, lavg, start) ==
  [x |-> x,
   num_reqs |-> NumReqs,
   req_rate |-> ReqRate(x, lavg),
   network_type |-> network_type,
   start |-> start]

\* The function is about to be called for some graph, tag and l_avg > 0.
InitPoint ==
  /\ InitMain /\ InitEnv /\ InitHist /\ IdleGen
  /\ sp_nodes \in {1..n : n \in 2..MaxNodes}
  /\ sp_tag \in Tags
  /\ sp_lavg \in 1..MaxLavg
  /\ sp_calls = << >>

\* One call, for any of the sweep values.
SinglePoint ==
  /\ Len(sp_calls) < MaxCalls
  /\ \E i \in 1..NPoints, start \in sp_nodes :
       sp_calls' = Append(sp_calls,
                          simulate_single_request_rate(x_range[i], sp_tag, sp_lavg, start))
  /\ UNCHANGED <<sp_nodes, sp_tag, sp_lavg>>
  /\ UNCHANGED <<mainVars, envVars, histVars, genVars>>

NextPoint == SinglePoint

SpecPoint == InitPoint /\ [][NextPoint]_vars

C13_OneEngineRunPerPoint ==
  (sweepState[cur] \in {"Running", "Failed"} /\ failure # "NetworkXError")
    => /\ engineCalls[cur] >= idx
       /\ nWrites[cur] = engineCalls[cur]
       /\ Len(result) = idx
       /\ \A i \in 1..idx : result[i].x = x_range[i]

\* A result file that was truncated in the middle of a dump.
IsTruncated(s) == HasFile(s) /\ Len(fileData[PathOf(s)]) = 0

\* C14 as stated: a truncated result file is fatal for the run that comes
\* upon it: the call of the sweep driver for its triple fails.
C14_TruncatedFileIsFatal ==
  \A s \in Triples :
    (IsTruncated(s) /\ sweepState[s] # "Idle")
      => sweepState[s] = "Failed" /\ pc = "crashed"

\* C14 amended: a truncated result file is taken for a finished sweep: every
\* call of the sweep driver for its triple is Skipped, no exception is raised
\* at that triple, and the file is neither rewritten nor removed.
C14_TruncatedFileIsSkipped ==
  /\ [](\A s \in Triples :
          IsTruncated(s) => /\ sweepState[s] \in {"Idle", "Skipped"}
                            /\ (failure # "none" => cur # s)
                            /\ nNetwork[s] = 0 /\ nWrites[s] = 0)
  /\ [][\A s \in Triples :
          IsTruncated(s) => /\ fileState'[PathOf(s)] = "exists"
                            /\ fileData'[PathOf(s)] = fileData[PathOf(s)]]_vars

\* C14 witness: a run has skipped a triple whose file is truncated and gone
\* on to a later triple.
C14_Witness ==
  \E s \in Triples : IsTruncated(s) /\ sweepState[s] = "Skipped" /\ cur > s

\* C15: the sweep driver is called for a triple only after the calls for all
\* triples before it have ended Done or Skipped; at most one sweep is under
\* way, and it is the one of the triple the script is at; within one process
\* run a triple's sweep is entered at most once (only from the call at that
\* triple, never again after it has ended), and a step runs the engine at most
\* once, for the triple the script is at.
C15_StrictlySequential ==
  /\ [](\A s \in Triples :
          sweepState[s] # "Idle"
            => \A u \in Triples : u < s => sweepState[u] \in {"Done", "Skipped"})
  /\ [](/\ Cardinality({s \in Triples : sweepState[s] = "Running"}) <= 1
        /\ \A s \in Triples : sweepState[s] \in {"Running", "Failed"} => s = cur)
  /\ [][run' = run
          => \A s \in Triples :
               /\ (sweepState[s] = "Idle" /\ sweepState'[s] # "Idle")
                    => (pc = "enter" /\ cur = s)
               /\ sweepState[s] # "Idle" => sweepState'[s] # "Idle"
               /\ sweepState[s] \in {"Done", "Skipped", "Failed"}
                    => sweepState'[s] = sweepState[s]
               /\ engineCalls'[s] # engineCalls[s]
                    => (cur = s /\ engineCalls'[s] = engineCalls[s] + 1)]_vars

\* C15 witness: the sweep of the third triple is under way after the sweeps
\* of the first two have ended.
C15_Witness ==
  /\ sweepState[1] \in {"Done", "Skipped"}
  /\ sweepState[2] \in {"Done", "Skipped"}
  /\ sweepState[3] = "Running"

\* C16: the triples' destination paths are pairwise different; a sweep is
\* Skipped only on a file at its own path, and a step touches no result file
\* other than the one of the triple the script is at.
C16_OwnFileOnly ==
  /\ [](\A s, u \in Triples : s # u => PathOf(s) # PathOf(u))
  /\ [](\A s \in Triples : sweepState[s] = "Skipped" => fileState[PathOf(s)] = "exists")
  /\ [][\A q \in PicklePaths :
          q # PathOf(cur) => fileState'[q] = fileState[q] /\ fileData'[q] = fileData[q]]_vars

\* C16 witness: a triple was Skipped on its file, and the sweep of the next
\* triple, which has no file, was started all the same.
C16_Witness ==
  \E s \in Triples :
    /\ s + 1 \in Triples
    /\ sweepState[s] = "Skipped"
    /\ fileState[PathOf(s)] = "exists"
    /\ sweepState[s + 1] \in {"Running", "Failed"}
    /\ fileState[PathOf(s + 1)] = "absent"

\* C17: for a file-backed triple the sweep driver is called, and its
\* destination path looked at, only after the graph file was read in the same
\* statement sequence: G is bound to the triple's graph when the driver is
\* entered, and when the run ends on the missing graph file the destination
\* has not been looked at, so whether it exists makes no difference.
C17_GraphReadBeforeDriver ==
  \A s \in Triples :
    TripleList[s].graph_file # ""
      => LET f == TripleList[s].graph_file
         IN /\ (cur = s /\ pc = "enter") => (G = s /\ graphFile[f] = "present")
            /\ sweepState[s] # "Idle" => graphFile[f] = "present"
            /\ fileState[PathOf(s)] # "unobserved" => graphFile[f] = "present"
            /\ (pc = "crashed" /\ cur = s /\ failure = "FileNotFoundError")
                 => /\ graphFile[f] = "missing"
                    /\ fileState[PathOf(s)] = "unobserved"

\* C17 witness: a second run, too, has ended with FileNotFoundError at a
\* file-backed triple whose destination was never looked at.
C17_Witness ==
  /\ run >= 2
  /\ pc = "crashed" /\ failure = "FileNotFoundError"
  /\ TripleList[cur].graph_file # ""
  /\ fileState[PathOf(cur)] = "unobserved"

====
